---- MODULE Spec2Model ----
(***************************************************************************)
(* A model of hicstuff's distance-law engine (hicstuff/distance_law.py):   *)
(* the driver get_distance_law and the functions it calls, over fragment   *)
(* tables as hicstuff/digest.py writes them.                               *)
(*                                                                         *)
(* Conventions.  Python sequences are TLA+ sequences; their 0-based        *)
(* indices are kept as values (a segment boundary is a 0-based fragment    *)
(* index) and PyAt reads a sequence the way Python does, negative indices  *)
(* included.  The geometric base is a rational <<num, den>>; logarithms    *)
(* and powers are computed exactly, so floating-point rounding of          *)
(* np.log and np.logspace is not part of the model.                        *)
(*                                                                         *)
(* Specifications.  Spec is a whole run of get_distance_law over a pairs   *)
(* file of at most MaxPairs records; SpecSegments is its beginning, up to  *)
(* the segment lengths; SpecFunctions applies circular_distance_law and    *)
(* logbins_xs to arguments of their own; SpecCurves applies the export,    *)
(* the import, the normalization and the average to batches of curves;     *)
(* SpecPipeline applies sam2pairs and pairs2matrix (hicstuff/pipeline.py)  *)
(* and write_frag_info (hicstuff/digest.py); SpecAggregator applies the    *)
(* normalization, the average and the slope and keeps the arguments as     *)
(* they are after the call; SpecNames applies get_names to tables that     *)
(* name their chromosomes in either order; SpecSam2pairs is sam2pairs on   *)
(* files of named reads, one turn of its loops at a time.  Values divided  *)
(* by a sum or a count are kept as fractions [num, den].                   *)
(***************************************************************************)
EXTENDS Integers, Sequences, FiniteSets, TLC

\* ------------------------------------------------------------------ bounds
MaxChrom == 2
MaxFrags == 2
MaxSize == 3
MaxCentro == 4
MaxPairs == 2
MaxLen == 8
MaxCurves == 2
MaxBins == 3
MaxRef == 2
MaxPos == 2
MaxReads == 1
MaxRecs == 4
MaxThreshold == 2
MaxSamLen == 2
MaxNames == 3
MaxUnmatched == 4

\* None as an exception name; an absent value of any other kind is the empty
\* sequence and a present one v is <<v>> where the two could be confused
None == "None"
Absent == <<>>
Some(v) == <<v>>
Get(o) == o[1]
ChromNames == <<"chr1", "chr2", "chr3", "chr4">>
\* geometric bases: 2, 3/2, 4/3
Bases == {<<2, 1>>, <<3, 2>>, <<4, 3>>}
DriverBases == {<<2, 1>>, <<3, 2>>}

\* ------------------------------------------------------------------ helpers
\* s[i] as Python evaluates it (the caller checks PyInRange first)
PyInRange(s, i) == i >= 0 - Len(s) /\ i < Len(s)
PyAt(s, i) == IF i < 0 THEN s[Len(s) + i + 1] ELSE s[i + 1]

Abs(x) == IF x < 0 THEN 0 - x ELSE x
SetMax(S) == CHOOSE x \in S : \A y \in S : y <= x
SetMin(S) == CHOOSE x \in S : \A y \in S : x <= y

RECURSIVE SumSeq(_)
SumSeq(s) == IF s = <<>> THEN 0 ELSE Head(s) + SumSeq(Tail(s))

RECURSIVE Pow(_, _)
Pow(b, k) == IF k = 0 THEN 1 ELSE b * Pow(b, k - 1)

\* np.sort of a sequence of integers
RECURSIVE Insert(_, _)
Insert(x, s) ==
    IF s = <<>> THEN <<x>>
    ELSE IF x <= Head(s) THEN <<x>> \o s
    ELSE <<Head(s)>> \o Insert(x, Tail(s))
RECURSIVE NpSort(_)
NpSort(s) == IF s = <<>> THEN <<>> ELSE Insert(Head(s), NpSort(Tail(s)))

\* np.unique of a sequence of integers: its distinct values, ascending
RECURSIVE SortedSeqOf(_)
SortedSeqOf(S) ==
    IF S = {} THEN <<>>
    ELSE <<SetMin(S)>> \o SortedSeqOf(S \ {SetMin(S)})
NpUnique(s) == SortedSeqOf({s[i] : i \in 1..Len(s)})

\* np.searchsorted(a, v, side="right") on a sorted sequence
SearchSortedLeft(a, v) == Cardinality({i \in 1..Len(a) : a[i] < v})
SearchSortedRight(a, v) == Cardinality({i \in 1..Len(a) : a[i] <= v})

\* ------------------------------------------------------------------ digest
DEFAULT_THRESHOLD_SIZE == 0

\* the fragment lines write_frag_info writes for one contig cut into fragments
\* of the given sizes; an empty fragment ("if size > 0") gets no line
RECURSIVE ContigFrags(_, _, _, _)
ContigFrags(name, sizes, current_id, start_pos) ==
    IF sizes = <<>> THEN <<>>
    ELSE IF Head(sizes) = 0 THEN ContigFrags(name, Tail(sizes), current_id, start_pos)
    ELSE <<[id |-> current_id, chrom |-> name, start_pos |-> start_pos,
            end_pos |-> start_pos + Head(sizes)]>>
         \o ContigFrags(name, Tail(sizes), current_id + 1, start_pos + Head(sizes))

\* "if contig_length < int(size): continue"
Discarded(contig_length, size) == contig_length < size

\* the variable size after the loop over the fragments of a contig: the loop
\* assigns it the length of each fragment ("size = len(frag)")
SizeAfter(sizes, size) == IF sizes = <<>> THEN size ELSE sizes[Len(sizes)]

\* the loop over the records of the genome: contigs is a sequence of
\* [name, sizes], size the current value of the variable size and total_frags
\* the fragments written so far; [frags, info] are the lines of the two files
RECURSIVE WriteContigs(_, _, _)
WriteContigs(contigs, size, total_frags) ==
    IF contigs = <<>> THEN [frags |-> <<>>, info |-> <<>>]
    ELSE LET record == Head(contigs)
             contig_length == SumSeq(record.sizes)
         IN IF Discarded(contig_length, size)
            THEN WriteContigs(Tail(contigs), size, total_frags)
            ELSE LET my_frags == ContigFrags(record.name, record.sizes, 1, 0)
                     rest == WriteContigs(Tail(contigs), SizeAfter(record.sizes, size),
                                          total_frags + Len(my_frags))
                 IN [frags |-> my_frags \o rest.frags,
                     info |-> <<[contig |-> record.name, length |-> contig_length,
                                 n_frags |-> Len(my_frags),
                                 cumul_length |-> total_frags]>> \o rest.info]

write_frag_info(contigs, size) == WriteContigs(contigs, size, 0)

\* the fragment list of a genome, digested with the default threshold
FragmentsList(contigs) == write_frag_info(contigs, DEFAULT_THRESHOLD_SIZE).frags

\* ------------------------------------------------- get_chr_segment_bins_index
\* the number of cells of one row that np.where(fragments == v) reports; the
\* chromosome name is a string and never equals a number
CellsEqual(row, v) ==
    (IF row.id = v THEN 1 ELSE 0) + (IF row.start_pos = v THEN 1 ELSE 0)
    + (IF row.end_pos = v THEN 1 ELSE 0)

\* np.where(fragments == v)[0]: the row index of every matching cell, row-major
RECURSIVE WhereEqual(_, _, _)
WhereEqual(fragments, v, r) ==
    IF r >= Len(fragments) THEN <<>>
    ELSE [c \in 1..CellsEqual(fragments[r + 1], v) |-> r]
         \o WhereEqual(fragments, v, r + 1)

ChromStartsMutOne(fragments) == WhereEqual(fragments, 1, 0)
ChromStarts(fragments) == WhereEqual(fragments, 0, 0)

\* the sanity check "as many chroms as centromeres"
CentroMismatchMutMore(chr_segment_bins, centro_pos) ==
    Len(chr_segment_bins) > Len(centro_pos)
CentroMismatch(chr_segment_bins, centro_pos) ==
    Len(chr_segment_bins) # Len(centro_pos)

\* rows lo..hi-1 (0-based) of the table whose start_pos // c == 0, as positions
\* inside the slice
CentroHits(fragments, lo, hi, c) ==
    {j \in 0..(hi - lo - 1) : fragments[lo + j + 1].start_pos \div c = 0}

\* upper end of the slice of chromosome i (0-based)
SubfragsEnd(fragments, chr_segment_bins, i) ==
    IF i + 1 < Len(chr_segment_bins) THEN PyAt(chr_segment_bins, i + 1)
    ELSE Len(fragments)

CentroBins(fragments, chr_segment_bins, centro_pos) ==
    [i1 \in 1..Len(chr_segment_bins) |->
        chr_segment_bins[i1]
        + SetMax(CentroHits(fragments, chr_segment_bins[i1],
                            SubfragsEnd(fragments, chr_segment_bins, i1 - 1),
                            centro_pos[i1]))]

\* max() of an empty selection raises ValueError
CentroEmpty(fragments, chr_segment_bins, centro_pos) ==
    \E i1 \in 1..Len(chr_segment_bins) :
        CentroHits(fragments, chr_segment_bins[i1],
                   SubfragsEnd(fragments, chr_segment_bins, i1 - 1),
                   centro_pos[i1]) = {}

\* [err, bins]: err is None and bins the boundaries, or err names the abort
get_chr_segment_bins_index(fragments, centro_file) ==
    LET chr_segment_bins == ChromStarts(fragments)
        centro_pos == Get(centro_file)
    IN IF centro_file = Absent THEN [err |-> None, bins |-> chr_segment_bins]
       ELSE IF CentroMismatch(chr_segment_bins, centro_pos)
            THEN [err |-> "SystemExit", bins |-> <<>>]
       ELSE IF CentroEmpty(fragments, chr_segment_bins, centro_pos)
            THEN [err |-> "ValueError", bins |-> <<>>]
       ELSE [err |-> None,
             bins |-> NpSort(chr_segment_bins
                             \o CentroBins(fragments, chr_segment_bins, centro_pos))]

\* ----------------------------------------------------- get_chr_segment_length
StartsAtZeroOrOne(fragments, b) ==
    fragments[b + 1].start_pos = 0 \/ fragments[b + 1].start_pos = 1

EndPos(fragments) == [r \in 1..Len(fragments) |-> fragments[r].end_pos]

\* body of the loop, i 0-based in 0..len-2
SegmentLengthAt(fragments, chr_segment_bins, i) ==
    LET b == PyAt(chr_segment_bins, i)
        nb == PyAt(chr_segment_bins, i + 1)
    IN IF StartsAtZeroOrOne(fragments, b)
       THEN PyAt(EndPos(fragments), nb - 1)
       ELSE PyAt(EndPos(fragments), nb - 1) - PyAt(EndPos(fragments), b - 1)

\* "case of the last xs": tests the boundary chr_segment_bins[-2]
LastSegmentLength(fragments, chr_segment_bins) ==
    LET b == PyAt(chr_segment_bins, 0 - 2)
    IN IF StartsAtZeroOrOne(fragments, b)
       THEN PyAt(EndPos(fragments), 0 - 1)
       ELSE PyAt(EndPos(fragments), 0 - 1) - PyAt(EndPos(fragments), b - 1)

\* [err, lengths]; chr_segment_bins[-2] raises IndexError on a single boundary
get_chr_segment_length(fragments, chr_segment_bins) ==
    IF ~PyInRange(chr_segment_bins, 0 - 2)
    THEN [err |-> "IndexError", lengths |-> <<>>]
    ELSE [err |-> None,
          lengths |-> [i1 \in 1..Len(chr_segment_bins) |->
                          IF i1 < Len(chr_segment_bins)
                          THEN SegmentLengthAt(fragments, chr_segment_bins, i1 - 1)
                          ELSE LastSegmentLength(fragments, chr_segment_bins)]]

\* ----------------------------------------------------------------- logbins_xs
\* floor(log_base(a/b)) for a/b >= 1: the largest k with base^k <= a/b
RECURSIVE FloorLog(_, _, _, _)
FloorLog(base, a, b, k) ==
    IF Pow(base[1], k + 1) * b <= a * Pow(base[2], k + 1)
    THEN FloorLog(base, a, b, k + 1)
    ELSE k

\* int(np.log(n) / np.log(base) + 1) for n = a/b > 0; int() truncates towards 0
NBins(base, a, b) ==
    IF a >= b THEN FloorLog(base, a, b, 0) + 1
    ELSE LET f == FloorLog(base, b, a, 0)
         IN IF f = 0 THEN 0 ELSE 1 - f

\* np.logspace(0, n_bins - 1, num=n_bins, base=base, dtype=int): base^k truncated
Logspace(base, n_bins) ==
    [k1 \in 1..n_bins |-> Pow(base[1], k1 - 1) \div Pow(base[2], k1 - 1)]

\* n_bins of segment i1: the length is halved when circular
SegmentNBins(chr_segment_length, i1, base, circular) ==
    IF circular THEN NBins(base, chr_segment_length[i1], 2)
    ELSE NBins(base, chr_segment_length[i1], 1)

LogbinsOf(chr_segment_length, i1, base, circular) ==
    NpUnique(Logspace(base, SegmentNBins(chr_segment_length, i1, base, circular)))

\* [err, xs]; int() of the logarithm of a length <= 0 raises, and np.logspace
\* raises ValueError on a negative number of samples
logbins_xs(chr_segment_length, base, circular) ==
    IF \E i1 \in 1..Len(chr_segment_length) : chr_segment_length[i1] <= 0
    THEN [err |-> "OverflowError", xs |-> <<>>]
    ELSE IF \E i1 \in 1..Len(chr_segment_length) :
           SegmentNBins(chr_segment_length, i1, base, circular) < 0
    THEN [err |-> "ValueError", xs |-> <<>>]
    ELSE [err |-> None,
          xs |-> [i1 \in 1..Len(chr_segment_length) |->
                     LogbinsOf(chr_segment_length, i1, base, circular)]]

\* ------------------------------------------------------ circular_distance_law
circular_distance_lawMutFull(distance, chr_segment_length, chr_bin) ==
    LET chr_len == PyAt(chr_segment_length, chr_bin)
    IN IF distance > chr_len THEN chr_len - distance ELSE distance
\* distance > chr_len / 2 is a true division: compared as 2 * distance > chr_len
circular_distance_law(distance, chr_segment_length, chr_bin) ==
    LET chr_len == PyAt(chr_segment_length, chr_bin)
    IN IF 2 * distance > chr_len THEN chr_len - distance ELSE distance

\* --------------------------------------------------------- get_pairs_distance
\* "We only keep the event +/+ or -/-"
SameStrandMutAll(line) == TRUE
SameStrand(line) == line.strand1 = line.strand2

\* the segment of a fragment: np.searchsorted(chr_segment_bins, frag, "right") - 1
ChrBinMutLeft(chr_segment_bins, frag) == SearchSortedLeft(chr_segment_bins, frag) - 1
ChrBin(chr_segment_bins, frag) == SearchSortedRight(chr_segment_bins, frag) - 1

\* the distance between the two religated extremities
StrandDistanceMutSwapped(line, fragments) ==
    IF line.strand1 = "-"
    THEN Abs(fragments[line.frag1 + 1].end_pos - fragments[line.frag2 + 1].end_pos)
    ELSE Abs(fragments[line.frag1 + 1].start_pos - fragments[line.frag2 + 1].start_pos)
StrandDistance(line, fragments) ==
    IF line.strand1 = "-"
    THEN Abs(fragments[line.frag1 + 1].start_pos - fragments[line.frag2 + 1].start_pos)
    ELSE Abs(fragments[line.frag1 + 1].end_pos - fragments[line.frag2 + 1].end_pos)

PairDistance(line, fragments, chr_segment_length, chr_bin1, circular) ==
    IF circular
    THEN circular_distance_law(StrandDistance(line, fragments), chr_segment_length, chr_bin1)
    ELSE StrandDistance(line, fragments)

\* np.searchsorted(xs_temp, distance, side="right") - 1
PsIndiceMutLeft(xs_temp, distance) == SearchSortedLeft(xs_temp, distance) - 1
PsIndice(xs_temp, distance) == SearchSortedRight(xs_temp, distance) - 1

\* ps[chr_bin][ps_indice] += 1 on the list of lists ps; both indices are
\* Python indices, so -1 names the last element
IncrementMutSet(ps, chr_bin, ps_indice) ==
    LET row1 == IF chr_bin < 0 THEN Len(ps) + chr_bin + 1 ELSE chr_bin + 1
        col1 == IF ps_indice < 0 THEN Len(ps[row1]) + ps_indice + 1 ELSE ps_indice + 1
    IN [ps EXCEPT ![row1][col1] = 1]
Increment(ps, chr_bin, ps_indice) ==
    LET row1 == IF chr_bin < 0 THEN Len(ps) + chr_bin + 1 ELSE chr_bin + 1
        col1 == IF ps_indice < 0 THEN Len(ps[row1]) + ps_indice + 1 ELSE ps_indice + 1
    IN [ps EXCEPT ![row1][col1] = @ + 1]

\* [err, ps]: the accumulators after one record
get_pairs_distance(line, fragments, chr_segment_bins, chr_segment_length, xs, ps, circular) ==
    IF ~SameStrand(line) THEN [err |-> None, ps |-> ps]
    ELSE LET chr_bin1 == ChrBin(chr_segment_bins, line.frag1)
             chr_bin2 == ChrBin(chr_segment_bins, line.frag2)
         IN IF chr_bin1 # chr_bin2 THEN [err |-> None, ps |-> ps]
            ELSE LET distance == PairDistance(line, fragments, chr_segment_length,
                                              chr_bin1, circular)
                     ps_indice == PsIndice(PyAt(xs, chr_bin1), distance)
                 IN IF ~PyInRange(PyAt(ps, chr_bin1), ps_indice)
                    THEN [err |-> "IndexError", ps |-> ps]
                    ELSE [err |-> None, ps |-> Increment(ps, chr_bin1, ps_indice)]

\* ------------------------------------------- get_distance_law: normalisation
\* The count of bin j of a segment of length n after "ps[i][j] /= area": the
\* quotient is kept as the count and the integer part of the divisor, which is
\* div / (2 * sqrt(2)) for a trapezium and div / 2 for the last bin's triangle.
AreaCell(count, xs_i, n, j1) ==
    IF j1 < Len(xs_i)
    THEN [count |-> count, shape |-> "trapezium",
          div |-> (2 * n - xs_i[j1 + 1] - xs_i[j1]) * (xs_i[j1 + 1] - xs_i[j1])]
    ELSE [count |-> count, shape |-> "triangle",
          div |-> (n - xs_i[j1]) * (n - xs_i[j1])]

\* [err, ps]; ps[i][-1] raises IndexError on a segment without bins
AreaNormalize(xs, ps, chr_segment_length) ==
    IF \E i1 \in 1..Len(xs) : Len(ps[i1]) = 0
    THEN [err |-> "IndexError", ps |-> <<>>]
    ELSE [err |-> None,
          ps |-> [i1 \in 1..Len(xs) |->
                     [j1 \in 1..Len(xs[i1]) |->
                         AreaCell(ps[i1][j1], xs[i1], chr_segment_length[i1], j1)]]]

\* ------------------------------------------------------------------ get_names
NameRank(name) == CHOOSE r \in 1..Len(ChromNames) : ChromNames[r] = name

\* np.unique(fragments["chrom"]): the distinct names in sorted order
UniqueChroms(fragments) ==
    LET ranks == SortedSeqOf({NameRank(fragments[r].chrom) : r \in 1..Len(fragments)})
    IN [k1 \in 1..Len(ranks) |-> ChromNames[ranks[k1]]]

get_names(fragments, chr_segment_bins) ==
    LET chr_names == UniqueChroms(fragments)
    IN IF Len(chr_segment_bins) = Len(chr_names) THEN chr_names
       ELSE [k1 \in 1..(2 * Len(chr_names)) |->
                IF k1 % 2 = 1 THEN <<chr_names[(k1 + 1) \div 2], "_left">>
                ELSE <<chr_names[k1 \div 2], "_rigth">>]

\* -------------------------------------------------------- export_distance_law
RECURSIVE ExportRows(_, _, _, _)
ExportRows(xs, ps, names, i1) ==
    IF i1 > Len(xs) THEN <<>>
    ELSE [j1 \in 1..Len(xs[i1]) |->
             [x |-> xs[i1][j1], p |-> ps[i1][j1], name |-> names[i1]]]
         \o ExportRows(xs, ps, names, i1 + 1)

export_distance_lawMutFewer(xs, ps, names) ==
    IF Len(xs) > Len(names) THEN [err |-> "SystemExit", file |-> <<>>]
    ELSE [err |-> None, file |-> ExportRows(xs, ps, names, 1)]
export_distance_lawMutReversed(xs, ps, names) ==
    IF Len(xs) # Len(names) THEN [err |-> "SystemExit", file |-> <<>>]
    ELSE LET rows == ExportRows(xs, ps, names, 1)
         IN [err |-> None,
             file |-> [r \in 1..Len(rows) |-> rows[Len(rows) + 1 - r]]]
\* [err, file]: the rows written, or the abort of the sanity check
export_distance_law(xs, ps, names) ==
    IF Len(xs) # Len(names) THEN [err |-> "SystemExit", file |-> <<>>]
    ELSE [err |-> None, file |-> ExportRows(xs, ps, names, 1)]

\* ------------------------------------------------------- import_distance_law
\* str() of a non-negative integer as its decimal digits, and int() of them
DigitChars == <<"0", "1", "2", "3", "4", "5", "6", "7", "8", "9">>
RECURSIVE StrInt(_)
StrInt(n) ==
    IF n < 10 THEN <<DigitChars[n + 1]>>
    ELSE StrInt(n \div 10) \o <<DigitChars[(n % 10) + 1]>>
DigitValue(ch) == (CHOOSE d \in 1..10 : DigitChars[d] = ch) - 1
RECURSIVE ParseInt(_)
ParseInt(digits) ==
    IF Len(digits) = 1 THEN DigitValue(digits[1])
    ELSE 10 * ParseInt(SubSeq(digits, 1, Len(digits) - 1))
         + DigitValue(digits[Len(digits)])

\* str() of a float with an integral value ("3.0") and its parsing
StrFloat(v) == StrInt(v) \o <<".", "0">>
ParseFloat(text) == ParseInt(SubSeq(text, 1, Len(text) - 2))

\* the lines of the table as text: the cells that xs, ps and the names are
\* written as
FileText(rows) ==
    [r \in 1..Len(rows) |->
        [x |-> StrInt(rows[r].x), p |-> StrFloat(rows[r].p), name |-> rows[r].name]]

\* pd.read_csv(..., header=0): line 0 of the file becomes the column names and
\* the data frame is made of the lines after it
ReadCsvHeader0(text) ==
    [r \in 1..(Len(text) - 1) |->
        [x |-> ParseInt(text[r + 1].x), p |-> ParseFloat(text[r + 1].p),
         name |-> text[r + 1].name]]

\* np.unique(file.iloc[:, 2]): the distinct labels, sorted
UniqueNames(frame) ==
    LET ranks == SortedSeqOf({NameRank(frame[r].name) : r \in 1..Len(frame)})
    IN [k1 \in 1..Len(ranks) |-> ChromNames[ranks[k1]]]

\* file[file.iloc[:, 2] == name]: the rows of one label, in file order
RECURSIVE Subfile(_, _)
Subfile(frame, name) ==
    IF frame = <<>> THEN <<>>
    ELSE (IF Head(frame).name = name THEN <<Head(frame)>> ELSE <<>>)
         \o Subfile(Tail(frame), name)

\* [err, xs, ps, labels]; pandas raises EmptyDataError on an empty file
import_distance_law(text) ==
    IF text = <<>>
    THEN [err |-> "EmptyDataError", xs |-> <<>>, ps |-> <<>>, labels |-> <<>>]
    ELSE LET file == ReadCsvHeader0(text)
             names == UniqueNames(file)
             sub(i1) == Subfile(file, names[i1])
         IN [err |-> None,
             xs |-> [i1 \in 1..Len(names) |->
                        [r \in 1..Len(sub(i1)) |-> sub(i1)[r].x]],
             ps |-> [i1 \in 1..Len(names) |->
                        [r \in 1..Len(sub(i1)) |-> sub(i1)[r].p]],
             labels |-> [i1 \in 1..Len(names) |->
                            [r \in 1..Len(sub(i1)) |-> sub(i1)[r].name]]]

\* ---------------------------------------------------- normalize_distance_law
\* "if (xs[j][i] > 1000) and (i < min_xs)"
WindowStart == 1000

\* np.shape of a list of arrays: (n, m) when all have length m, (n,) for arrays
\* of different lengths (an array of objects)
NpShape(l) ==
    IF \A c \in 1..Len(l) : Len(l[c]) = Len(l[1])
    THEN <<Len(l), Len(l[1])>> ELSE <<Len(l)>>

\* len(min(xs, key=len))
MinLen(l) == SetMin({Len(l[c]) : c \in 1..Len(l)})

\* the indices (1-based) of curve j the sum is taken over
Window(xs, j, min_xs) ==
    {i1 \in 1..Len(xs[j]) : xs[j][i1] > WindowStart /\ i1 - 1 < min_xs}

RECURSIVE SumOver(_, _)
SumOver(s, I) ==
    IF I = {} THEN 0 ELSE s[SetMin(I)] + SumOver(s, I \ {SetMin(I)})

WindowSum(xs, ps, j, min_xs) == SumOver(ps[j], Window(xs, j, min_xs))

\* the warning of a curve whose sum is 0 reads xs[j][min_xs], which is past the
\* end of a curve of the shortest length
WarningFails(xs, j, min_xs) == ~PyInRange(xs[j], min_xs)

\* ps[j] / sum_values: every value over the sum, as the fraction num / den
Divided(curve, sum_values) ==
    [i1 \in 1..Len(curve) |-> [num |-> curve[i1], den |-> sum_values]]

\* [err, normed_ps, warned]: the curves are handled in order and the first
\* exception ends the call; warned is the set of curves a warning was emitted for
normalize_distance_law(xs, ps) ==
    LET min_xs == MinLen(xs)
        zero == {j \in 1..Len(ps) : WindowSum(xs, ps, j, min_xs) = 0}
    IN IF NpShape(xs) # NpShape(ps)
       THEN [err |-> "SystemExit", normed_ps |-> <<>>, warned |-> {}]
       ELSE IF \E j \in zero : WarningFails(xs, j, min_xs)
       THEN [err |-> "IndexError", normed_ps |-> <<>>,
             warned |-> {j \in zero :
                            \A k \in zero : WarningFails(xs, k, min_xs) => j < k}]
       ELSE [err |-> None,
             normed_ps |-> [j \in 1..Len(ps) |->
                              Divided(ps[j],
                                      IF j \in zero THEN 1
                                      ELSE WindowSum(xs, ps, j, min_xs))],
             warned |-> zero]

\* ------------------------------------------------------ average_distance_law
\* max(xs, key=len): the first of the longest
Longest(l) ==
    l[SetMin({c \in 1..Len(l) : \A d \in 1..Len(l) : Len(l[d]) <= Len(l[c])})]

\* ps_occur: the curves that reach index i1
OccurMutAll(ps, i1) == Len(ps)
Occur(ps, i1) == Cardinality({c \in 1..Len(ps) : Len(ps[c]) >= i1})

\* ps_values: the sum of the values at index i1 of the curves that reach it
RECURSIVE Values(_, _)
Values(ps, i1) ==
    IF ps = <<>> THEN 0
    ELSE (IF Len(Head(ps)) >= i1 THEN Head(ps)[i1] ELSE 0) + Values(Tail(ps), i1)

\* [err, xs, averaged_ps]; a curve of ps longer than the longest xs cannot be
\* added to the accumulators (ValueError)
average_distance_law(xs, ps) ==
    LET max_xs == Longest(xs)
    IN IF \E c \in 1..Len(ps) : Len(ps[c]) > Len(max_xs)
       THEN [err |-> "ValueError", xs |-> <<>>, averaged_ps |-> <<>>]
       ELSE [err |-> None, xs |-> max_xs,
             averaged_ps |-> [i1 \in 1..Len(max_xs) |->
                                 [num |-> Values(ps, i1), den |-> Occur(ps, i1)]]]

\* -------------------------------------------------------- slope_distance_law
\* A value of an array of floats as the fraction num / den.
Float(v) == [num |-> v, den |-> 1]

\* "ps[i][ps[i] == 0] = 10 ** (-9)": an assignment into the array the caller
\* passed, which replaces every zero of it
ZeroReplaced(curve) ==
    [k1 \in 1..Len(curve) |->
        IF curve[k1] = 0 THEN [num |-> 1, den |-> Pow(10, 9)] ELSE Float(curve[k1])]

\* the arrays xs[i][1:] / xs[i][:-1] and ps[i][1:] / ps[i][:-1] divide
\* elementwise: equal lengths, or one of them of length 1 (broadcast)
SlopeShapesFit(xs_i, ps_i) ==
    Len(xs_i) = Len(ps_i) \/ Len(xs_i) = 2 \/ Len(ps_i) = 2

\* the slope before smoothing, kept as its terms: value k is
\* log(p[k + 1] / p[k]) / log(x[k + 1] / x[k]), an array of length 1 being
\* repeated along the other one
SlopeTemp(xs_i, ps_i) ==
    LET n == IF Len(xs_i) = Len(ps_i) THEN Len(ps_i) - 1
             ELSE IF Len(ps_i) = 2 THEN Len(xs_i) - 1 ELSE Len(ps_i) - 1
        at(l, k1) == IF Len(l) - 1 = n THEN k1 ELSE 1
    IN [k1 \in 1..n |->
           [p |-> <<ps_i[at(ps_i, k1) + 1], ps_i[at(ps_i, k1)]>>,
            x |-> <<xs_i[at(xs_i, k1) + 1], xs_i[at(xs_i, k1)]>>]]

\* the first curve (1-based) at which the loop raises, or 0
SlopeFailsAt(xs, ps) ==
    LET bad == {i1 \in 1..Len(ps) : i1 > Len(xs) \/ ~SlopeShapesFit(xs[i1], ps[i1])}
    IN IF bad = {} THEN 0 ELSE SetMin(bad)

\* [err, ps, slope]: ps is the list of arrays the caller passed as it is after
\* the call; slope[i] is gaussian_filter1d(slope_temp, 2), kept as its argument
slope_distance_law(xs, ps) ==
    LET stop == SlopeFailsAt(xs, ps)
        reached(i1) == stop = 0 \/ i1 <= stop
        after == [i1 \in 1..Len(ps) |->
                     IF reached(i1) THEN ZeroReplaced(ps[i1])
                     ELSE [k1 \in 1..Len(ps[i1]) |-> Float(ps[i1][k1])]]
    IN IF stop # 0
       THEN [err |-> IF stop > Len(xs) THEN "IndexError" ELSE "ValueError",
             ps |-> after, slope |-> <<>>]
       ELSE [err |-> None, ps |-> after,
             slope |-> [i1 \in 1..Len(ps) |->
                           [sigma |-> 2, of |-> SlopeTemp(xs[i1], after[i1])]]]

\* ------------------------------------------------------------------ sam2pairs
\* "min_qual=30"
MinQual == 30

Passed(end, min_qual) == end.mapping_quality >= min_qual

\* "Flipping to get upper triangle"
Flip(end1, end2) ==
    \/ end1.reference_start > end2.reference_start
    \/ end1.reference_id > end2.reference_id

StrandOf(end) == IF end.is_reverse THEN "-" ELSE "+"

\* the row pairs_writer.writerow writes (without the read name)
PairsRow(end1, end2) ==
    [chr1 |-> ChromNames[end1.reference_id + 1], pos1 |-> end1.reference_start + 1,
     chr2 |-> ChromNames[end2.reference_id + 1], pos2 |-> end2.reference_start + 1,
     strand1 |-> StrandOf(end1), strand2 |-> StrandOf(end2)]

\* one turn of the loop over the two SAM files, for two reads of the same name:
\* st is [pairs, total, mapped], the rows written and the counters n_reads
Sam2pairsTurn(st, end1, end2, min_qual) ==
    [pairs |-> IF Passed(end1, min_qual) /\ Passed(end2, min_qual)
               THEN Append(st.pairs, IF Flip(end1, end2) THEN PairsRow(end2, end1)
                                     ELSE PairsRow(end1, end2))
               ELSE st.pairs,
     total |-> st.total + 2,
     mapped |-> st.mapped + (IF Passed(end1, min_qual) THEN 1 ELSE 0)
                          + (IF Passed(end2, min_qual) THEN 1 ELSE 0)]

\* sam2pairs on two files of reads that have names.  st is the state of the
\* call: the reads forward and reverse have still to give, the reads end1 and
\* end2 of the turn and whether they pass the filter, the rows written and the
\* counters n_reads["total"], n_reads["mapped"] and unmatched_reads.
Sam2pairsStart(sam1, sam2) ==
    [forward |-> sam1, reverse |-> sam2, end1 |-> Absent, end2 |-> Absent,
     end1_passed |-> FALSE, end2_passed |-> FALSE, pairs |-> <<>>,
     total |-> 0, mapped |-> 0, unmatched |-> 0]

BoolInt(b) == IF b THEN 1 ELSE 0

\* the row written, with the name of the read that gives each half of it; only
\* the name of the first one goes to the file
NamedRow(end1, end2) ==
    [readID |-> end1.query_name, mate |-> end2.query_name, row |-> PairsRow(end1, end2)]

\* one turn of "for end1, end2 in itertools.zip_longest(forward, reverse)" up to
\* the while loop.  zip_longest gives None for the file that has ended, and
\* None.mapping_quality raises AttributeError; when both have ended the loop
\* is over and the log line divides by n_reads["total"].
Sam2pairsFor(st, min_qual) ==
    IF st.forward = <<>> /\ st.reverse = <<>>
    THEN IF st.total = 0 THEN [pc |-> "error", err |-> "ZeroDivisionError", st |-> st]
         ELSE [pc |-> "returned", err |-> None, st |-> st]
    ELSE IF st.forward = <<>> \/ st.reverse = <<>>
    THEN [pc |-> "error", err |-> "AttributeError",
          st |-> [st EXCEPT !.forward = IF @ = <<>> THEN @ ELSE Tail(@),
                            !.reverse = IF @ = <<>> THEN @ ELSE Tail(@)]]
    ELSE LET end1 == Head(st.forward)
             end2 == Head(st.reverse)
         IN [pc |-> "while", err |-> None,
             st |-> [st EXCEPT !.forward = Tail(@), !.reverse = Tail(@),
                               !.end1 = Some(end1), !.end2 = Some(end2),
                               !.end1_passed = Passed(end1, min_qual),
                               !.end2_passed = Passed(end2, min_qual),
                               !.total = @ + 2,
                               !.mapped = @ + BoolInt(Passed(end1, min_qual))
                                            + BoolInt(Passed(end2, min_qual))]]

\* "while end1.query_name != end2.query_name"
Unmatched(st) == Get(st.end1).query_name # Get(st.end2).query_name

\* next(forward) or next(reverse) in the while loop: the StopIteration of a
\* file that has ended is caught and passed over, and the reads stay as they are
AdvanceForward(st, min_qual) ==
    IF st.forward = <<>> THEN st
    ELSE [st EXCEPT !.end1 = Some(Head(st.forward)), !.forward = Tail(@),
                    !.end1_passed = Passed(Head(st.forward), min_qual),
                    !.mapped = @ + BoolInt(Passed(Head(st.forward), min_qual))]
AdvanceReverse(st, min_qual) ==
    IF st.reverse = <<>> THEN st
    ELSE [st EXCEPT !.end2 = Some(Head(st.reverse)), !.reverse = Tail(@),
                    !.end2_passed = Passed(Head(st.reverse), min_qual),
                    !.mapped = @ + BoolInt(Passed(Head(st.reverse), min_qual))]

\* one turn of the while loop, for two reads of different names
Sam2pairsWhile(st, min_qual) ==
    LET moved == IF Get(st.end1).query_name < Get(st.end2).query_name
                 THEN AdvanceForward(st, min_qual)
                 ELSE AdvanceReverse(st, min_qual)
    IN [moved EXCEPT !.unmatched = @ + 1, !.total = @ + 1]

\* the rest of the turn of the for loop, for two reads of the same name
Sam2pairsKeep(st) ==
    LET end1 == Get(st.end1)
        end2 == Get(st.end2)
    IN IF st.end1_passed /\ st.end2_passed
       THEN [st EXCEPT !.pairs = Append(@, IF Flip(end1, end2) THEN NamedRow(end2, end1)
                                           ELSE NamedRow(end1, end2))]
       ELSE st

\* --------------------------------------------------------------- pairs2matrix
\* "if prev_pair == curr_pair"
SameAsPrevMutFrag1(prev_pair, curr_pair) == prev_pair[1] = curr_pair[1]
SameAsPrev(prev_pair, curr_pair) == prev_pair = curr_pair

\* the loop over the sorted pairs: st is [prev_pair, n_occ, n_nonzero, n_pairs,
\* mat], mat the entry lines written so far
RECURSIVE MatrixLoop(_, _)
MatrixLoop(records, st) ==
    IF records = <<>> THEN st
    ELSE LET curr_pair == Head(records)
         IN MatrixLoop(Tail(records),
               IF SameAsPrev(st.prev_pair, curr_pair)
               THEN [st EXCEPT !.n_occ = @ + 1]
               ELSE [prev_pair |-> curr_pair,
                     n_occ |-> 1,
                     n_nonzero |-> st.n_nonzero + 1,
                     n_pairs |-> st.n_pairs + st.n_occ,
                     mat |-> IF st.n_occ > 0
                             THEN Append(st.mat,
                                         [frag1 |-> st.prev_pair[1],
                                          frag2 |-> st.prev_pair[2],
                                          n_occ |-> st.n_occ])
                             ELSE st.mat])

\* [err, header, mat, n_pairs]: records are the <<frag1, frag2>> of the sorted
\* pairs; "Write the last value" reads curr_pair, unbound on an empty file
pairs2matrix(records, n_frags) ==
    IF records = <<>>
    THEN [err |-> "UnboundLocalError", header |-> <<>>, mat |-> <<>>, n_pairs |-> 0]
    ELSE LET st == MatrixLoop(records, [prev_pair |-> <<0, 0>>, n_occ |-> 0,
                                        n_nonzero |-> 0, n_pairs |-> 0, mat |-> <<>>])
             curr_pair == records[Len(records)]
         IN [err |-> None,
             header |-> <<n_frags, n_frags, st.n_nonzero + 1>>,
             mat |-> Append(st.mat, [frag1 |-> curr_pair[1], frag2 |-> curr_pair[2],
                                     n_occ |-> st.n_occ]),
             n_pairs |-> st.n_pairs + 1]

\* ------------------------------------------------------------------- inputs
\* fragment sizes: the shortest fragment and the longest the bound allows
FragSizes == {1, MaxSize}
SizeSeqs == UNION {[1..f -> FragSizes] : f \in 1..MaxFrags}
Genomes ==
    UNION {{[c \in 1..k |-> [name |-> ChromNames[c], sizes |-> g[c]]] :
               g \in [1..k -> SizeSeqs]} : k \in 1..MaxChrom}
FragmentFiles == {FragmentsList(g) : g \in Genomes}
\* centromere positions: inside the first fragment, and past the start of the
\* second fragment whatever its size
CentroPositions == {1, MaxCentro}
CentroLists == UNION {[1..k -> CentroPositions] : k \in 1..MaxChrom}
CentroFiles == {Absent} \cup {Some(c) : c \in CentroLists}
Strands == {"+", "-"}
\* the records a pairs file over a table of n fragments can hold
Records(n) ==
    [strand1 : Strands, strand2 : Strands, frag1 : 0..(n - 1), frag2 : 0..(n - 1)]

\* ---------------------------------------------------------------------- state
VARIABLES
    pc,                 \* position in get_distance_law, or the function under test
    err,                \* the exception that ended the run, or None
    fragments_file,     \* input: the fragment list on disk
    centro_file,        \* input: Absent, or Some(the centromere positions)
    base,               \* input: the geometric base <<num, den>>
    circular,           \* input
    fragments,          \* the table once read
    chr_segment_bins,
    chr_segment_length,
    xs,
    ps,
    line,               \* Some(the record of the pairs file read last)
    nread,              \* records read so far
    nkept,              \* records read so far that the specification counts
    out_file,           \* Some(the rows of the distance-law table written)
    call                \* pure-function harness: arguments and result

vars == <<pc, err, fragments_file, centro_file, base, circular, fragments,
          chr_segment_bins, chr_segment_length, xs, ps, line, nread, nkept,
          out_file, call>>

inputs == <<fragments_file, centro_file, base, circular>>

Init ==
    /\ pc = "start"
    /\ err = None
    /\ fragments_file \in FragmentFiles
    /\ centro_file \in CentroFiles
    /\ base \in DriverBases
    /\ circular \in BOOLEAN
    /\ fragments = Absent
    /\ chr_segment_bins = Absent
    /\ chr_segment_length = Absent
    /\ xs = Absent
    /\ ps = Absent
    /\ line = Absent
    /\ nread = 0
    /\ nkept = 0
    /\ out_file = Absent
    /\ call = Absent

\* ------------------------------------------------------------ get_distance_law
\* "centro_file should be None if chromosomes are circulars"
InvalidConfigurationMutNone(circ, centro) == circ /\ centro = Absent
InvalidConfiguration(circ, centro) == circ /\ centro # Absent

Abort(e) == pc' = "error" /\ err' = e

\* the segment the specification resolves a fragment to: the one with the
\* rightmost boundary <= the fragment index (0-based segment number)
SegmentOf(bins, frag) == SetMax({i1 \in 1..Len(bins) : bins[i1] <= frag}) - 1

\* a record the specification counts: same strand, same segment, and a distance
\* that is not before the first bin-start of the segment
Counted(rec) ==
    /\ rec.strand1 = rec.strand2
    /\ SegmentOf(chr_segment_bins, rec.frag1) = SegmentOf(chr_segment_bins, rec.frag2)
    /\ LET seg == SegmentOf(chr_segment_bins, rec.frag1)
       IN /\ Len(xs[seg + 1]) > 0
          /\ PairDistance(rec, fragments, chr_segment_length, seg, circular)
                >= xs[seg + 1][1]

CheckConfiguration ==
    /\ pc = "start"
    /\ IF InvalidConfiguration(circular, centro_file)
       THEN Abort("ValueError")
       ELSE pc' = "read_fragments" /\ err' = err
    /\ UNCHANGED <<inputs, fragments, chr_segment_bins, chr_segment_length, xs, ps,
                   line, nread, nkept, out_file, call>>

ReadFragments ==
    /\ pc = "read_fragments"
    /\ fragments' = fragments_file
    /\ pc' = "segment_bins"
    /\ UNCHANGED <<err, inputs, chr_segment_bins, chr_segment_length, xs, ps,
                   line, nread, nkept, out_file, call>>

SegmentBins ==
    /\ pc = "segment_bins"
    /\ LET r == get_chr_segment_bins_index(fragments, centro_file)
       IN IF r.err # None
          THEN Abort(r.err) /\ UNCHANGED chr_segment_bins
          ELSE pc' = "segment_length" /\ err' = err /\ chr_segment_bins' = r.bins
    /\ UNCHANGED <<inputs, fragments, chr_segment_length, xs, ps,
                   line, nread, nkept, out_file, call>>

SegmentLength ==
    /\ pc = "segment_length"
    /\ LET r == get_chr_segment_length(fragments, chr_segment_bins)
       IN IF r.err # None
          THEN Abort(r.err) /\ UNCHANGED chr_segment_length
          ELSE pc' = "logbins" /\ err' = err /\ chr_segment_length' = r.lengths
    /\ UNCHANGED <<inputs, fragments, chr_segment_bins, xs, ps,
                   line, nread, nkept, out_file, call>>

Logbins ==
    /\ pc = "logbins"
    /\ LET r == logbins_xs(chr_segment_length, base, circular)
       IN IF r.err # None
          THEN Abort(r.err) /\ UNCHANGED xs
          ELSE pc' = "init_ps" /\ err' = err /\ xs' = r.xs
    /\ UNCHANGED <<inputs, fragments, chr_segment_bins, chr_segment_length, ps,
                   line, nread, nkept, out_file, call>>

\* ps[i] = [0] * len(xs[i])
InitPsMutOnes ==
    /\ pc = "init_ps"
    /\ ps' = [i1 \in 1..Len(xs) |-> [j1 \in 1..Len(xs[i1]) |-> 1]]
    /\ pc' = "stream"
    /\ UNCHANGED <<err, inputs, fragments, chr_segment_bins, chr_segment_length, xs,
                   line, nread, nkept, out_file, call>>
InitPs ==
    /\ pc = "init_ps"
    /\ ps' = [i1 \in 1..Len(xs) |-> [j1 \in 1..Len(xs[i1]) |-> 0]]
    /\ pc' = "stream"
    /\ UNCHANGED <<err, inputs, fragments, chr_segment_bins, chr_segment_length, xs,
                   line, nread, nkept, out_file, call>>

\* one turn of "for line in reader": the next record goes through
\* get_pairs_distance
StreamRecord ==
    /\ pc = "stream"
    /\ nread < MaxPairs
    /\ \E rec \in Records(Len(fragments)) :
          LET r == get_pairs_distance(rec, fragments, chr_segment_bins,
                                      chr_segment_length, xs, ps, circular)
          IN /\ line' = Some(rec)
             /\ nread' = nread + 1
             /\ nkept' = IF Counted(rec) THEN nkept + 1 ELSE nkept
             /\ ps' = r.ps
             /\ IF r.err # None THEN Abort(r.err) ELSE pc' = pc /\ err' = err
    /\ UNCHANGED <<inputs, fragments, chr_segment_bins, chr_segment_length, xs,
                   out_file, call>>

\* the reader is exhausted
EndOfPairs ==
    /\ pc = "stream"
    /\ pc' = "normalize"
    /\ line' = Absent
    /\ UNCHANGED <<err, inputs, fragments, chr_segment_bins, chr_segment_length, xs,
                   ps, nread, nkept, out_file, call>>

Normalize ==
    /\ pc = "normalize"
    /\ LET r == AreaNormalize(xs, ps, chr_segment_length)
       IN IF r.err # None
          THEN Abort(r.err) /\ UNCHANGED ps
          ELSE pc' = "export" /\ err' = err /\ ps' = r.ps
    /\ UNCHANGED <<inputs, fragments, chr_segment_bins, chr_segment_length, xs,
                   line, nread, nkept, out_file, call>>

Export ==
    /\ pc = "export"
    /\ LET r == export_distance_law(xs, ps, get_names(fragments, chr_segment_bins))
       IN IF r.err # None
          THEN Abort(r.err) /\ UNCHANGED out_file
          ELSE pc' = "done" /\ err' = err /\ out_file' = Some(r.file)
    /\ UNCHANGED <<inputs, fragments, chr_segment_bins, chr_segment_length, xs, ps,
                   line, nread, nkept, call>>

Next ==
    \/ CheckConfiguration
    \/ ReadFragments
    \/ SegmentBins
    \/ SegmentLength
    \/ Logbins
    \/ InitPs
    \/ StreamRecord
    \/ EndOfPairs
    \/ Normalize
    \/ Export

Spec == Init /\ [][Next]_vars

\* ------------------------------------------- get_distance_law up to the lengths
\* The first statements of get_distance_law alone: the configuration check, the
\* fragment table, the segment boundaries and the segment lengths.  The base is
\* not read by these statements and is fixed.
InitSegments == Init /\ base = <<2, 1>>

NextSegments ==
    \/ CheckConfiguration
    \/ ReadFragments
    \/ SegmentBins
    \/ SegmentLength

SpecSegments == InitSegments /\ [][NextSegments]_vars

\* ------------------------------------------------- the functions on their own
\* circular_distance_law and logbins_xs applied to arguments drawn from bounded
\* sets; call holds the arguments and the result of the last application.
LengthLists == UNION {[1..k -> 1..MaxLen] : k \in 1..MaxChrom}

\* the calls of circular_distance_law's docstring: <<distance, lengths, chr_bin>>
DocstringCalls ==
    {<<7500, <<2800, 9000>>, 1>>, <<1300, <<2800, 9000>>, 0>>,
     <<1400, <<2800, 9000>>, 0>>}

CircularCalls ==
    DocstringCalls
    \cup UNION {UNION {{<<d, l, i>> : d \in 0..l[i + 1]} : i \in 0..(Len(l) - 1)} :
                   l \in LengthLists}

InitFunctions ==
    /\ pc = "call"
    /\ err = None
    /\ fragments_file = Absent
    /\ centro_file = Absent
    /\ base = <<2, 1>>
    /\ circular = FALSE
    /\ fragments = Absent
    /\ chr_segment_bins = Absent
    /\ chr_segment_length = Absent
    /\ xs = Absent
    /\ ps = Absent
    /\ line = Absent
    /\ nread = 0
    /\ nkept = 0
    /\ out_file = Absent
    /\ call = Absent

CallCircularDistanceLaw ==
    /\ pc = "call"
    /\ \E c \in CircularCalls :
          call' = Some([fn |-> "circular_distance_law", distance |-> c[1],
                        chr_segment_length |-> c[2], chr_bin |-> c[3],
                        result |-> circular_distance_law(c[1], c[2], c[3])])
    /\ pc' = "returned"
    /\ UNCHANGED <<err, inputs, fragments, chr_segment_bins, chr_segment_length,
                   xs, ps, line, nread, nkept, out_file>>

CallLogbinsXs ==
    /\ pc = "call"
    /\ \E l \in LengthLists, b \in Bases, circ \in BOOLEAN :
          LET r == logbins_xs(l, b, circ)
          IN call' = Some([fn |-> "logbins_xs", chr_segment_length |-> l,
                           base |-> b, circular |-> circ,
                           err |-> r.err, xs |-> r.xs])
    /\ pc' = "returned"
    /\ UNCHANGED <<err, inputs, fragments, chr_segment_bins, chr_segment_length,
                   xs, ps, line, nread, nkept, out_file>>

NextFunctions ==
    \/ CallCircularDistanceLaw
    \/ CallLogbinsXs

SpecFunctions == InitFunctions /\ [][NextFunctions]_vars

\* --------------------------------------------------- the functions over curves
\* export_distance_law, import_distance_law, normalize_distance_law and
\* average_distance_law applied to batches of at most MaxCurves curves of at
\* most MaxBins bins.  A curve is [xs, ps] with ps as long as xs; its bin-starts
\* are the first ones of BinStarts and its values are drawn from PsValues.
BinStarts == <<1000, 1001, 2000, 4000, 8000>>
PsValues == {0, 3}
Curves ==
    UNION {{[xs |-> SubSeq(BinStarts, 1, n), ps |-> p] : p \in [1..n -> PsValues]} :
              n \in 1..MaxBins}
Batches == UNION {[1..k -> Curves] : k \in 1..MaxCurves}
XsOf(batch) == [c \in 1..Len(batch) |-> batch[c].xs]
PsOf(batch) == [c \in 1..Len(batch) |-> batch[c].ps]

\* lists of distinct labels, in sorted and in reverse sorted order, of up to one
\* more label than there can be curves; the export is called with as many
\* labels as curves in either order, and with more or fewer in sorted order
NameOrders ==
    {ChromNames, [k1 \in 1..Len(ChromNames) |-> ChromNames[Len(ChromNames) + 1 - k1]]}
NameLists == {SubSeq(o, 1, n) : o \in NameOrders, n \in 1..(MaxCurves + 1)}

InitCurves == InitFunctions

CallExportDistanceLaw ==
    /\ pc = "call"
    /\ \E b \in Batches, names \in NameLists :
          /\ Len(names) = Len(b) \/ names = SubSeq(ChromNames, 1, Len(names))
          /\ LET r == export_distance_law(XsOf(b), PsOf(b), names)
             IN /\ call' = Some([fn |-> "export_distance_law", xs |-> XsOf(b),
                                 ps |-> PsOf(b), names |-> names])
                /\ err' = r.err
                /\ out_file' = IF r.err = None THEN Some(r.file) ELSE out_file
    /\ pc' = "returned"
    /\ UNCHANGED <<inputs, fragments, chr_segment_bins, chr_segment_length,
                   xs, ps, line, nread, nkept>>

\* export_distance_law, then import_distance_law on the file it wrote
CallImportDistanceLaw ==
    /\ pc = "call"
    /\ \E b \in Batches, names \in NameLists :
          /\ Len(names) = Len(b)
          /\ LET w == export_distance_law(XsOf(b), PsOf(b), names)
                 r == import_distance_law(FileText(w.file))
             IN /\ call' = Some([fn |-> "import_distance_law", xs |-> XsOf(b),
                                 ps |-> PsOf(b), names |-> names,
                                 result |-> r])
                /\ err' = r.err
                /\ out_file' = Some(w.file)
    /\ pc' = "returned"
    /\ UNCHANGED <<inputs, fragments, chr_segment_bins, chr_segment_length,
                   xs, ps, line, nread, nkept>>

CallNormalizeDistanceLaw ==
    /\ pc = "call"
    /\ \E b \in Batches :
          LET r == normalize_distance_law(XsOf(b), PsOf(b))
          IN /\ call' = Some([fn |-> "normalize_distance_law", xs |-> XsOf(b),
                              ps |-> PsOf(b), result |-> r,
                              \* "normed_ps[j] = ps[j] / sum_values" makes new
                              \* arrays: the arguments are only read
                              xs_after |-> XsOf(b), ps_after |-> PsOf(b)])
             /\ err' = r.err
    /\ pc' = "returned"
    /\ UNCHANGED <<inputs, fragments, chr_segment_bins, chr_segment_length,
                   xs, ps, line, nread, nkept, out_file>>

CallAverageDistanceLaw ==
    /\ pc = "call"
    /\ \E b \in Batches :
          LET r == average_distance_law(XsOf(b), PsOf(b))
          IN /\ call' = Some([fn |-> "average_distance_law", xs |-> XsOf(b),
                              ps |-> PsOf(b), result |-> r,
                              \* "xs = max(xs, key=len)" rebinds the local name
                              \* and the sums go to ps_values and ps_occur
                              xs_after |-> XsOf(b), ps_after |-> PsOf(b)])
             /\ err' = r.err
    /\ pc' = "returned"
    /\ UNCHANGED <<inputs, fragments, chr_segment_bins, chr_segment_length,
                   xs, ps, line, nread, nkept, out_file>>

NextCurves ==
    \/ CallExportDistanceLaw
    \/ CallImportDistanceLaw
    \/ CallNormalizeDistanceLaw
    \/ CallAverageDistanceLaw

SpecCurves == InitCurves /\ [][NextCurves]_vars

\* --------------------------------------------- the functions that take curves
\* normalize_distance_law, average_distance_law and slope_distance_law on the
\* same batches, each call keeping the arguments as they are after it.
InitAggregator == InitFunctions

CallSlopeDistanceLaw ==
    /\ pc = "call"
    /\ \E b \in Batches :
          LET r == slope_distance_law(XsOf(b), PsOf(b))
          IN /\ call' = Some([fn |-> "slope_distance_law", xs |-> XsOf(b),
                              ps |-> PsOf(b), result |-> r.slope,
                              xs_after |-> XsOf(b), ps_after |-> r.ps])
             /\ err' = r.err
    /\ pc' = "returned"
    /\ UNCHANGED <<inputs, fragments, chr_segment_bins, chr_segment_length,
                   xs, ps, line, nread, nkept, out_file>>

NextAggregator ==
    \/ CallNormalizeDistanceLaw
    \/ CallAverageDistanceLaw
    \/ CallSlopeDistanceLaw

SpecAggregator == InitAggregator /\ [][NextAggregator]_vars

\* ------------------------------------------------------------ the labels
\* The labels get_distance_law gives the segments: get_names on the table and
\* on the boundaries get_chr_segment_bins_index returned for it.  The tables
\* are the ones of FragmentFiles with the chromosomes named in sorted order or
\* in reverse sorted order.
Renamed(frags, order) ==
    [r \in 1..Len(frags) |->
        [frags[r] EXCEPT !.chrom = order[NameRank(frags[r].chrom)]]]

InitNames == InitFunctions

CallGetNames ==
    /\ pc = "call"
    /\ \E f \in FragmentFiles, o \in NameOrders, c \in CentroFiles :
          LET table == Renamed(f, o)
              b == get_chr_segment_bins_index(table, c)
          IN /\ call' = Some([fn |-> "get_names", fragments |-> table,
                              arms |-> c # Absent, chr_segment_bins |-> b.bins,
                              result |-> IF b.err = None
                                         THEN get_names(table, b.bins) ELSE <<>>])
             /\ err' = b.err
    /\ pc' = "returned"
    /\ UNCHANGED <<inputs, fragments, chr_segment_bins, chr_segment_length,
                   xs, ps, line, nread, nkept, out_file>>

NextNames == CallGetNames

SpecNames == InitNames /\ [][NextNames]_vars

\* ------------------------------------------- the functions of the pipeline
\* sam2pairs over two SAM files of at most MaxReads reads each in which every
\* read has its mate, pairs2matrix over a sorted pairs file of at most MaxRecs
\* records, and write_frag_info over a genome and a size threshold.
Reads ==
    [reference_id : 0..(MaxRef - 1), reference_start : 0..(MaxPos - 1),
     is_reverse : BOOLEAN, mapping_quality : {MinQual - 1, MinQual}]

\* <<frag1, frag2>> before or equal to the next one in the order of the sort
PairLeq(a, b) == a[1] < b[1] \/ (a[1] = b[1] /\ a[2] <= b[2])
FragPairs == (0..(MaxFrags - 1)) \X (0..(MaxFrags - 1))
SortedPairs ==
    UNION {{s \in [1..n -> FragPairs] : \A r \in 1..(n - 1) : PairLeq(s[r], s[r + 1])} :
              n \in 1..MaxRecs}

\* the cuts of a contig: fragments as in SizeSeqs, after an empty first fragment
\* (a site at the very start of the sequence) or not
DigestSizeSeqs ==
    SizeSeqs \cup {<<0>> \o q : q \in {t \in SizeSeqs : Len(t) < MaxFrags}}
DigestGenomes ==
    UNION {{[c \in 1..k |-> [name |-> ChromNames[c], sizes |-> g[c]]] :
               g \in [1..k -> DigestSizeSeqs]} : k \in 1..MaxChrom}
Thresholds == 0..MaxThreshold

InitPipeline == InitFunctions

\* one turn of "for end1, end2 in itertools.zip_longest(forward, reverse)"
Sam2pairsStep ==
    /\ pc \in {"call", "sam2pairs"}
    /\ nread < MaxReads
    /\ \E end1 \in Reads, end2 \in Reads :
          LET st == IF pc = "call" THEN [pairs |-> <<>>, total |-> 0, mapped |-> 0]
                    ELSE Get(call).st
          IN call' = Some([fn |-> "sam2pairs",
                           st |-> Sam2pairsTurn(st, end1, end2, MinQual)])
    /\ nread' = nread + 1
    /\ pc' = "sam2pairs"
    /\ UNCHANGED <<err, inputs, fragments, chr_segment_bins, chr_segment_length,
                   xs, ps, line, nkept, out_file>>

CallPairs2matrix ==
    /\ pc = "call"
    /\ \E records \in SortedPairs :
          LET r == pairs2matrix(records, MaxFrags)
          IN /\ call' = Some([fn |-> "pairs2matrix", records |-> records,
                              result |-> r])
             /\ err' = r.err
    /\ pc' = "returned"
    /\ UNCHANGED <<inputs, fragments, chr_segment_bins, chr_segment_length,
                   xs, ps, line, nread, nkept, out_file>>

CallWriteFragInfo ==
    /\ pc = "call"
    /\ \E g \in DigestGenomes, size \in Thresholds :
          call' = Some([fn |-> "write_frag_info", fasta |-> g, size |-> size,
                        result |-> write_frag_info(g, size)])
    /\ pc' = "returned"
    /\ UNCHANGED <<err, inputs, fragments, chr_segment_bins, chr_segment_length,
                   xs, ps, line, nread, nkept, out_file>>

NextPipeline ==
    \/ Sam2pairsStep
    \/ CallPairs2matrix
    \/ CallWriteFragInfo

SpecPipeline == InitPipeline /\ [][NextPipeline]_vars

\* ------------------------------------------------- sam2pairs on named reads
\* sam2pairs over two name-sorted SAM files of at most MaxSamLen reads each, the
\* names of the reads being the numbers 1..MaxNames in their order; a file holds
\* one alignment for a read.  The turns of the while loop are those the counter
\* of unmatched reads allows up to MaxUnmatched.
NamedReads ==
    [query_name : 1..MaxNames, reference_id : {0}, reference_start : {0},
     is_reverse : {FALSE}, mapping_quality : {MinQual - 1, MinQual}]
SamFiles ==
    UNION {{f \in [1..n -> NamedReads] :
               \A r \in 1..(n - 1) : f[r].query_name < f[r + 1].query_name} :
              n \in 0..MaxSamLen}

InitSam2pairs == InitFunctions

CallSam2pairs ==
    /\ pc = "call"
    /\ \E sam1 \in SamFiles, sam2 \in SamFiles :
          call' = Some([fn |-> "sam2pairs", st |-> Sam2pairsStart(sam1, sam2)])
    /\ pc' = "for"
    /\ UNCHANGED <<err, inputs, fragments, chr_segment_bins, chr_segment_length,
                   xs, ps, line, nread, nkept, out_file>>

Sam2pairsForTurn ==
    /\ pc = "for"
    /\ LET r == Sam2pairsFor(Get(call).st, MinQual)
       IN /\ call' = Some([Get(call) EXCEPT !.st = r.st])
          /\ pc' = r.pc
          /\ err' = r.err
    /\ UNCHANGED <<inputs, fragments, chr_segment_bins, chr_segment_length,
                   xs, ps, line, nread, nkept, out_file>>

Sam2pairsWhileTurn ==
    /\ pc = "while"
    /\ Unmatched(Get(call).st)
    /\ Get(call).st.unmatched < MaxUnmatched
    /\ call' = Some([Get(call) EXCEPT !.st = Sam2pairsWhile(@, MinQual)])
    /\ UNCHANGED <<pc, err, inputs, fragments, chr_segment_bins, chr_segment_length,
                   xs, ps, line, nread, nkept, out_file>>

Sam2pairsKeepTurn ==
    /\ pc = "while"
    /\ ~Unmatched(Get(call).st)
    /\ call' = Some([Get(call) EXCEPT !.st = Sam2pairsKeep(@)])
    /\ pc' = "for"
    /\ UNCHANGED <<err, inputs, fragments, chr_segment_bins, chr_segment_length,
                   xs, ps, line, nread, nkept, out_file>>

NextSam2pairs ==
    \/ CallSam2pairs
    \/ Sam2pairsForTurn
    \/ Sam2pairsWhileTurn
    \/ Sam2pairsKeepTurn

SpecSam2pairs == InitSam2pairs /\ [][NextSam2pairs]_vars

\* ====================================================================== claims
\* a step that passes one record of the pairs file through get_pairs_distance;
\* the record is Get(line') and the accumulators before and after are ps, ps'
StreamStep == nread' = nread + 1
AllZero(acc) == \A i1 \in 1..Len(acc) : \A j1 \in 1..Len(acc[i1]) : acc[i1][j1] = 0
Total(acc) == SumSeq([i1 \in 1..Len(acc) |-> SumSeq(acc[i1])])

\* the rows (0-based) at which the table passes to another chromosome
FirstFragments(frags) ==
    {r - 1 : r \in {q \in 1..Len(frags) : q = 1 \/ frags[q].chrom # frags[q - 1].chrom}}

C2_OppositeStrandsIgnored ==
    [][(StreamStep /\ Get(line').strand1 # Get(line').strand2)
          => (ps' = ps /\ err' = None)]_vars

C2_Witness ==
    /\ pc = "stream"
    /\ nread = 2
    /\ Get(line).strand1 # Get(line).strand2
    /\ Get(line).frag1 # Get(line).frag2
    /\ circular
    /\ Total(ps) = 1

\* C3: the segment get_pairs_distance resolves a fragment to is the one with the
\* rightmost boundary <= the fragment index, and a same-strand record whose two
\* fragments lie in different segments changes no counter.
C3_OtherSegmentDiscarded ==
    [][/\ chr_segment_bins # Absent =>
             \A f \in 0..(Len(fragments) - 1) :
                 ChrBin(chr_segment_bins, f) = SegmentOf(chr_segment_bins, f)
       /\ (/\ StreamStep
           /\ Get(line').strand1 = Get(line').strand2
           /\ SegmentOf(chr_segment_bins, Get(line').frag1)
                 # SegmentOf(chr_segment_bins, Get(line').frag2))
          => (ps' = ps /\ err' = None)]_vars

\* a same-strand record across the two arms of one chromosome, after a record
\* that was counted
C3_Witness ==
    /\ pc = "stream"
    /\ nread = 2
    /\ centro_file # Absent
    /\ Get(line).strand1 = Get(line).strand2
    /\ fragments[Get(line).frag1 + 1].chrom = fragments[Get(line).frag2 + 1].chrom
    /\ SegmentOf(chr_segment_bins, Get(line).frag1)
          # SegmentOf(chr_segment_bins, Get(line).frag2)
    /\ Total(ps) = 1

\* the bin of a segment with the largest bin-start <= d (1-based position)
BinOf(xs_i, d) ==
    CHOOSE j1 \in 1..Len(xs_i) :
        /\ xs_i[j1] <= d
        /\ \A k1 \in 1..Len(xs_i) : xs_i[k1] <= d => xs_i[k1] <= xs_i[j1]

\* C4: a same-strand, same-segment record whose distance is not before the first
\* bin-start adds exactly 1 to the bin with the largest bin-start <= distance of
\* its segment, and changes no other counter.
C4_BinIncremented ==
    [][(StreamStep /\ Counted(Get(line'))) =>
          LET seg == SegmentOf(chr_segment_bins, Get(line').frag1)
              d == PairDistance(Get(line'), fragments, chr_segment_length, seg, circular)
          IN /\ err' = None
             /\ ps' = [ps EXCEPT ![seg + 1][BinOf(xs[seg + 1], d)] = @ + 1]]_vars

\* a distance of 3 counted in the bin that starts at 2, of the second segment
C4_Witness ==
    /\ pc = "stream"
    /\ nread = 1
    /\ Counted(Get(line))
    /\ SegmentOf(chr_segment_bins, Get(line).frag1) = 1
    /\ PairDistance(Get(line), fragments, chr_segment_length, 1, circular) = 3
    /\ xs[2] = <<1, 2, 4>>
    /\ ps = <<<<0, 0, 0>>, <<0, 1, 0>>>>

\* the record read is same-strand and same-segment and its distance is before
\* the first bin-start of the segment
BeforeFirstBin(rec) ==
    /\ rec.strand1 = rec.strand2
    /\ SegmentOf(chr_segment_bins, rec.frag1) = SegmentOf(chr_segment_bins, rec.frag2)
    /\ LET seg == SegmentOf(chr_segment_bins, rec.frag1)
       IN /\ Len(xs[seg + 1]) > 0
          /\ PairDistance(rec, fragments, chr_segment_length, seg, circular)
                < xs[seg + 1][1]

\* C5: a same-strand, same-segment record whose distance is before the first
\* bin-start of its segment changes no counter and raises nothing.
C5_BeforeFirstBinDropped ==
    [][(StreamStep /\ BeforeFirstBin(Get(line'))) => (ps' = ps /\ err' = None)]_vars

\* C8: when the streaming pass is over, the counters sum to the number of
\* records read that are same-strand, same-segment and not before the first
\* bin-start.
C8_TotalIsCountedRecords ==
    pc = "normalize" => Total(ps) = nkept

\* C9: with circular set and a centromere file given the run ends in ValueError
\* with nothing read, computed, streamed or written.
C9_InvalidConfigurationAborts ==
    (circular /\ centro_file # Absent) =>
        /\ pc \in {"start", "error"}
        /\ pc = "error" => err = "ValueError"
        /\ fragments = Absent
        /\ chr_segment_bins = Absent
        /\ chr_segment_length = Absent
        /\ xs = Absent
        /\ ps = Absent
        /\ nread = 0
        /\ out_file = Absent

C9_Witness ==
    /\ circular
    /\ centro_file # Absent
    /\ pc = "error"
    /\ err = "ValueError"

\* the number of chromosome-start boundaries of the table: fragments that start
\* at position 0
NumChromStarts(frags) == Cardinality({r \in 1..Len(frags) : frags[r].start_pos = 0})

\* C10: once get_chr_segment_bins_index has run with a centromere file, it has
\* aborted (SystemExit, no segment list) if the table's number of chromosome
\* starts differs from the number of centromere positions, and has returned a
\* segment list if the two are equal.
C10_CentromereCountChecked ==
    (centro_file # Absent /\ fragments # Absent /\ pc # "segment_bins") =>
        IF NumChromStarts(fragments) # Len(Get(centro_file))
        THEN pc = "error" /\ err = "SystemExit" /\ chr_segment_bins = Absent
        ELSE chr_segment_bins # Absent

\* two centromere positions for a table of one chromosome
C10_Witness ==
    /\ centro_file # Absent
    /\ pc = "error"
    /\ err = "SystemExit"
    /\ NumChromStarts(fragments) = 1
    /\ Len(Get(centro_file)) = 2

\* the other case of C10: equal counts, a segment list of arms
C10_WitnessEqual ==
    /\ centro_file # Absent
    /\ NumChromStarts(fragments) = 2
    /\ Len(Get(centro_file)) = 2
    /\ Len(chr_segment_bins) = 4

\* C6: for 0 <= d <= length[i], circular_distance_law(d, lengths, i) is d when
\* d <= length[i] / 2 and length[i] - d otherwise, so it lies in
\* [0, length[i] / 2]; the docstring's calls return 1500, 1300 and 1400.
C6_CircularFold ==
    (call # Absent /\ Get(call).fn = "circular_distance_law") =>
        LET c == Get(call)
            len == c.chr_segment_length[c.chr_bin + 1]
        IN /\ 2 * c.distance <= len => c.result = c.distance
           /\ 2 * c.distance > len => c.result = len - c.distance
           /\ 0 <= c.result
           /\ 2 * c.result <= len
           /\ <<c.distance, c.chr_segment_length, c.chr_bin>> = <<7500, <<2800, 9000>>, 1>>
                 => c.result = 1500
           /\ <<c.distance, c.chr_segment_length, c.chr_bin>> = <<1300, <<2800, 9000>>, 0>>
                 => c.result = 1300
           /\ <<c.distance, c.chr_segment_length, c.chr_bin>> = <<1400, <<2800, 9000>>, 0>>
                 => c.result = 1400

\* the docstring's first call: 7500 on a circle of 9000 folds to 1500
C6_Witness ==
    /\ call # Absent
    /\ Get(call).fn = "circular_distance_law"
    /\ Get(call).distance = 7500
    /\ Get(call).chr_segment_length = <<2800, 9000>>
    /\ Get(call).chr_bin = 1
    /\ Get(call).result = 1500

StrictlyIncreasing(seq) == \A j1 \in 1..(Len(seq) - 1) : seq[j1] < seq[j1 + 1]

\* C7: for lengths >= 1, a base > 1 and either value of the circular flag,
\* logbins_xs returns for every segment a strictly increasing sequence of
\* bin-starts whose first element is 1.
C7_LogbinsStartAtOne ==
    (call # Absent /\ Get(call).fn = "logbins_xs") =>
        /\ Get(call).err = None
        /\ \A i1 \in 1..Len(Get(call).chr_segment_length) :
              /\ Len(Get(call).xs[i1]) >= 1
              /\ Get(call).xs[i1][1] = 1
              /\ StrictlyIncreasing(Get(call).xs[i1])

\* the end position of the last fragment of the chromosome that starts at row
\* s (0-based): the length of that chromosome
ChromLength(frags, s) ==
    LET later == {r \in FirstFragments(frags) : r > s}
    IN IF later = {} THEN frags[Len(frags)].end_pos
       ELSE frags[SetMin(later)].end_pos

\* C15: with centromeres, for every chromosome whose right arm begins at a
\* fragment after the first one (start position > 1), the left arm's length is
\* the end position of the last fragment before the centromere boundary and the
\* two arm lengths sum to the chromosome's length; the last chromosome of the
\* table included.
C15_ArmLengths ==
    (centro_file # Absent /\ chr_segment_length # Absent) =>
        \A c \in 1..(Len(chr_segment_bins) \div 2) :
            LET s == chr_segment_bins[2 * c - 1]
                cb == chr_segment_bins[2 * c]
            IN (cb > s /\ fragments[cb + 1].start_pos > 1) =>
                 /\ chr_segment_length[2 * c - 1] = fragments[cb].end_pos
                 /\ chr_segment_length[2 * c - 1] + chr_segment_length[2 * c]
                       = ChromLength(fragments, s)

\* the call that was made, when it is one of function fn
Called(fn) == call # Absent /\ Get(call).fn = fn

\* the number of rows of the segments before segment i1
Offset(l, i1) == SumSeq([k1 \in 1..(i1 - 1) |-> Len(l[k1])])

C16_RowsInOrder ==
    (Called("export_distance_law") /\ err = None) =>
        LET c == Get(call)
            file == Get(out_file)
        IN /\ Len(file) = Offset(c.xs, Len(c.xs) + 1)
           /\ \A i1 \in 1..Len(c.xs) : \A j1 \in 1..Len(c.xs[i1]) :
                 file[Offset(c.xs, i1) + j1]
                    = [x |-> c.xs[i1][j1], p |-> c.ps[i1][j1], name |-> c.names[i1]]
           /\ \A r \in 1..(Len(file) - 1) :
                 file[r].name = file[r + 1].name => file[r].x < file[r + 1].x

\* a segment of three bins then one of two, labels in reverse sorted order
C16_Witness ==
    /\ Called("export_distance_law")
    /\ err = None
    /\ Get(call).names = <<"chr4", "chr3">>
    /\ Get(call).ps = <<<<0, 3, 0>>, <<3, 0>>>>
    /\ Len(Get(out_file)) = 5
    /\ Get(out_file)[4] = [x |-> 1000, p |-> 3, name |-> "chr3"]

\* C17: import_distance_law applied to the file export_distance_law wrote for
\* curves with distinct labels returns the same curves in the same order: as
\* many curves, and for each the exported bin-starts, values and label, the
\* first row of the file included.
C17_RoundTrip ==
    Called("import_distance_law") =>
        LET c == Get(call)
        IN /\ c.result.err = None
           /\ c.result.xs = c.xs
           /\ c.result.ps = c.ps
           /\ Len(c.result.labels) = Len(c.names)
           /\ \A i1 \in 1..Len(c.names) :
                 \A r \in 1..Len(c.result.labels[i1]) :
                     c.result.labels[i1][r] = c.names[i1]

\* the window of curve j the claims speak of: the indices (1-based) whose
\* bin-start is above 1000, below the length of the shortest curve of the batch
ShortestLen(l) == CHOOSE n \in {Len(l[c]) : c \in 1..Len(l)} :
                      \A c \in 1..Len(l) : n <= Len(l[c])
ClaimWindow(c, j) ==
    {i1 \in 1..Len(c.xs[j]) : c.xs[j][i1] > 1000 /\ i1 <= ShortestLen(c.xs)}
ClaimWindowSum(c, j) ==
    SumSeq([i1 \in 1..Len(c.ps[j]) |-> IF i1 \in ClaimWindow(c, j) THEN c.ps[j][i1] ELSE 0])

\* curve j of the result is curve j of the input with every value divided by s,
\* and its values over the window of j sum to total
NormedBy(c, j, s) ==
    /\ Len(c.result.normed_ps[j]) = Len(c.ps[j])
    /\ \A i1 \in 1..Len(c.ps[j]) :
          c.result.normed_ps[j][i1].num * s = c.ps[j][i1] * c.result.normed_ps[j][i1].den
WindowTotal(c, j) ==
    SumSeq([i1 \in 1..Len(c.ps[j]) |->
               IF i1 \in ClaimWindow(c, j) THEN c.result.normed_ps[j][i1].num ELSE 0])

\* C12: for every batch and every curve j of it whose window sum s is not zero,
\* normalize_distance_law returns, curve j of the result is curve j with every
\* value divided by s, and its window sums to 1.
C12_WindowSumIsOne ==
    Called("normalize_distance_law") =>
        LET c == Get(call)
        IN \A j \in 1..Len(c.ps) :
              ClaimWindowSum(c, j) # 0 =>
                 /\ c.result.err = None
                 /\ NormedBy(c, j, ClaimWindowSum(c, j))
                 /\ \A i1 \in 1..Len(c.ps[j]) :
                       c.result.normed_ps[j][i1].den = ClaimWindowSum(c, j)
                 /\ WindowTotal(c, j) = ClaimWindowSum(c, j)

\* C13: for every curve j of a batch whose window sum is zero, the shortest one
\* included, normalize_distance_law raises nothing, warns about j, returns
\* curve j unchanged (divided by 1) and normalizes the other curves of the
\* batch.
C13_ZeroSumRecovers ==
    Called("normalize_distance_law") =>
        LET c == Get(call)
        IN \A j \in 1..Len(c.ps) :
              ClaimWindowSum(c, j) = 0 =>
                 /\ c.result.err = None
                 /\ j \in c.result.warned
                 /\ NormedBy(c, j, 1)
                 /\ \A k \in 1..Len(c.ps) :
                       ClaimWindowSum(c, k) # 0 => NormedBy(c, k, ClaimWindowSum(c, k))

\* the curves that reach index i1
Reaching(c, i1) == {k \in 1..Len(c.ps) : Len(c.ps[k]) >= i1}

\* C14: average_distance_law returns a longest bin sequence of the batch and,
\* at every index of it, the sum of the values of exactly the curves that reach
\* the index over the number of those curves, which is never zero; the average
\* of two identical curves is that curve.
C14_AverageOverReaching ==
    Called("average_distance_law") =>
        LET c == Get(call)
            avg == c.result.averaged_ps
        IN /\ c.result.err = None
           /\ \E k \in 1..Len(c.xs) : c.result.xs = c.xs[k]
           /\ \A k \in 1..Len(c.xs) : Len(c.xs[k]) <= Len(c.result.xs)
           /\ Len(avg) = Len(c.result.xs)
           /\ \A i1 \in 1..Len(avg) :
                 /\ Reaching(c, i1) # {}
                 /\ avg[i1].den = Cardinality(Reaching(c, i1))
                 /\ avg[i1].num
                       = SumSeq([k \in 1..Len(c.ps) |->
                                    IF k \in Reaching(c, i1) THEN c.ps[k][i1] ELSE 0])
           /\ (Len(c.ps) = 2 /\ c.ps[1] = c.ps[2]) =>
                 \A i1 \in 1..Len(avg) : avg[i1].num = c.ps[1][i1] * avg[i1].den

\* a curve of three bins and one of two: the third bin is averaged over one curve
C14_Witness ==
    /\ Called("average_distance_law")
    /\ Get(call).ps = <<<<3, 0, 3>>, <<3, 3>>>>
    /\ Get(call).result.xs = <<1000, 1001, 2000>>
    /\ Get(call).result.averaged_ps
          = <<[num |-> 6, den |-> 2], [num |-> 3, den |-> 2], [num |-> 3, den |-> 1]>>

\* C18: every row sam2pairs has written is in upper-triangle order: the
\* chromosome of end 1 is not after that of end 2 in the reference order, and
\* on the same chromosome pos1 <= pos2.
C18_UpperTriangle ==
    Called("sam2pairs") =>
        \A r \in 1..Len(Get(call).st.pairs) :
            LET row == Get(call).st.pairs[r]
            IN /\ NameRank(row.chr1) <= NameRank(row.chr2)
               /\ row.chr1 = row.chr2 => row.pos1 <= row.pos2

\* the number of records of a combination of fragments
CountOf(records, p) == Cardinality({r \in 1..Len(records) : records[r] = p})

\* C19: for a non-empty sorted pairs file pairs2matrix writes exactly one entry
\* line per combination (frag1, frag2) that occurs, with the number of records
\* of that combination, no other entry line, and the counts sum to the number
\* of records.
C19_OneEntryPerCombination ==
    Called("pairs2matrix") =>
        LET c == Get(call)
            mat == c.result.mat
        IN /\ c.result.err = None
           /\ \A p \in FragPairs :
                 CountOf(c.records, p) > 0 =>
                    /\ Cardinality({l \in 1..Len(mat) :
                                       <<mat[l].frag1, mat[l].frag2>> = p}) = 1
                    /\ \A l \in 1..Len(mat) :
                          <<mat[l].frag1, mat[l].frag2>> = p
                             => mat[l].n_occ = CountOf(c.records, p)
           /\ \A l \in 1..Len(mat) :
                 CountOf(c.records, <<mat[l].frag1, mat[l].frag2>>) > 0
           /\ SumSeq([l \in 1..Len(mat) |-> mat[l].n_occ]) = Len(c.records)

\* a first run (0, 0) of two records and a last run of two records
C19_Witness ==
    /\ Called("pairs2matrix")
    /\ Get(call).records = <<<<0, 0>>, <<0, 0>>, <<1, 0>>, <<1, 0>>>>
    /\ Get(call).result.mat = <<[frag1 |-> 0, frag2 |-> 0, n_occ |-> 2],
                                [frag1 |-> 1, frag2 |-> 0, n_occ |-> 2]>>

\* a first run that is not (0, 0), of one record, and three runs
C19_WitnessOther ==
    /\ Called("pairs2matrix")
    /\ Get(call).records = <<<<0, 1>>, <<1, 0>>, <<1, 0>>, <<1, 1>>>>
    /\ Len(Get(call).result.mat) = 3

\* contig k of the genome has a line in the contig table
InContigTable(c, k) ==
    \E l \in 1..Len(c.result.info) : c.result.info[l].contig = c.fasta[k].name

\* every fragment of contig k is in the fragment list
InFragmentList(c, k) ==
    LET frags == ContigFrags(c.fasta[k].name, c.fasta[k].sizes, 1, 0)
    IN \A f \in 1..Len(frags) :
          \E l \in 1..Len(c.result.frags) : c.result.frags[l] = frags[f]

\* C20: write_frag_info leaves a contig out if and only if its length is below
\* the threshold it was called with; with the threshold 0 every contig has its
\* line in the contig table and its fragments in the fragment list.
C20_DiscardIffBelowThreshold ==
    Called("write_frag_info") =>
        LET c == Get(call)
        IN \A k \in 1..Len(c.fasta) :
              /\ ~InContigTable(c, k) <=> SumSeq(c.fasta[k].sizes) < c.size
              /\ c.size = 0 => (InContigTable(c, k) /\ InFragmentList(c, k))

\* the distance the specification gives a same-strand record: between the start
\* positions of the two fragments when both strands are "-", between their end
\* positions when both are "+"; folded to chr_len - d past half of the segment
\* when the chromosomes are circular
ExtremityDistance(rec) ==
    LET f1 == fragments[rec.frag1 + 1]
        f2 == fragments[rec.frag2 + 1]
        d == IF rec.strand1 = "-" THEN Abs(f1.start_pos - f2.start_pos)
             ELSE Abs(f1.end_pos - f2.end_pos)
        n == chr_segment_length[SegmentOf(chr_segment_bins, rec.frag1) + 1]
    IN IF circular /\ 2 * d > n THEN n - d ELSE d

\* the distance of the same record had the other end of the fragments been taken
OtherEndDistance(rec) ==
    LET f1 == fragments[rec.frag1 + 1]
        f2 == fragments[rec.frag2 + 1]
        d == IF rec.strand1 = "-" THEN Abs(f1.end_pos - f2.end_pos)
             ELSE Abs(f1.start_pos - f2.start_pos)
        n == chr_segment_length[SegmentOf(chr_segment_bins, rec.frag1) + 1]
    IN IF circular /\ 2 * d > n THEN n - d ELSE d

\* C21: a same-strand, same-segment record is counted at the distance between
\* the start positions of its two fragments when both strands are "-" and
\* between their end positions when both are "+": the counter that goes up is
\* the one of the bin holding that distance, and no other counter changes.
C21_DistanceBetweenExtremities ==
    [][(/\ StreamStep
        /\ Get(line').strand1 = Get(line').strand2
        /\ SegmentOf(chr_segment_bins, Get(line').frag1)
              = SegmentOf(chr_segment_bins, Get(line').frag2)
        /\ Len(xs[SegmentOf(chr_segment_bins, Get(line').frag1) + 1]) > 0
        /\ ExtremityDistance(Get(line'))
              >= xs[SegmentOf(chr_segment_bins, Get(line').frag1) + 1][1])
       => LET seg == SegmentOf(chr_segment_bins, Get(line').frag1)
          IN /\ err' = None
             /\ ps' = [ps EXCEPT ![seg + 1][BinOf(xs[seg + 1],
                                                  ExtremityDistance(Get(line')))]
                                    = @ + 1]]_vars

\* a "-/-" record over two fragments of different sizes, counted in the bin of
\* the distance between the starts, which is not the bin of the distance between
\* the ends
C21_Witness ==
    /\ pc = "stream"
    /\ nread = 1
    /\ Get(line).strand1 = "-" /\ Get(line).strand2 = "-"
    /\ Get(line).frag1 # Get(line).frag2
    /\ SegmentOf(chr_segment_bins, Get(line).frag1)
          = SegmentOf(chr_segment_bins, Get(line).frag2)
    /\ LET seg == SegmentOf(chr_segment_bins, Get(line).frag1)
           d == ExtremityDistance(Get(line))
           o == OtherEndDistance(Get(line))
       IN /\ Len(xs[seg + 1]) > 0
          /\ d >= xs[seg + 1][1] /\ o >= xs[seg + 1][1]
          /\ BinOf(xs[seg + 1], d) # BinOf(xs[seg + 1], o)
          /\ ps[seg + 1][BinOf(xs[seg + 1], d)] = 1
          /\ Total(ps) = 1

\* the same for a "+/+" record, counted in the bin of the distance between the ends
C21_WitnessPlus ==
    /\ pc = "stream"
    /\ nread = 1
    /\ Get(line).strand1 = "+" /\ Get(line).strand2 = "+"
    /\ SegmentOf(chr_segment_bins, Get(line).frag1)
          = SegmentOf(chr_segment_bins, Get(line).frag2)
    /\ LET seg == SegmentOf(chr_segment_bins, Get(line).frag1)
           d == ExtremityDistance(Get(line))
           o == OtherEndDistance(Get(line))
       IN /\ Len(xs[seg + 1]) > 0
          /\ d >= xs[seg + 1][1] /\ o >= xs[seg + 1][1]
          /\ BinOf(xs[seg + 1], d) # BinOf(xs[seg + 1], o)
          /\ ps[seg + 1][BinOf(xs[seg + 1], d)] = 1
          /\ Total(ps) = 1

\* the rows (0-based) of the chromosome that begins at row s
ChromRows(frags, s) ==
    LET later == {r \in FirstFragments(frags) : r > s}
    IN s..((IF later = {} THEN Len(frags) ELSE SetMin(later)) - 1)

\* the last row of the chromosome that begins at row s whose start position is
\* below the centromere position c
LastBelow(frags, s, c) ==
    SetMax({r \in ChromRows(frags, s) : frags[r + 1].start_pos < c})

\* C22: with as many centromere positions as chromosomes the boundaries are
\* the k chromosome starts plus, for each chromosome, the last fragment that
\* starts below its centromere: 2k boundaries in strictly increasing order,
\* wherever the centromere lies.
C22_ArmBoundaries ==
    (/\ centro_file # Absent
     /\ fragments # Absent
     /\ pc \notin {"start", "read_fragments", "segment_bins"}
     /\ NumChromStarts(fragments) = Len(Get(centro_file))) =>
        LET starts == SortedSeqOf(FirstFragments(fragments))
            k == Len(starts)
        IN /\ chr_segment_bins # Absent
           /\ Len(chr_segment_bins) = 2 * k
           /\ StrictlyIncreasing(chr_segment_bins)
           /\ \A c \in 1..k :
                 /\ chr_segment_bins[2 * c - 1] = starts[c]
                 /\ chr_segment_bins[2 * c]
                       = LastBelow(fragments, starts[c], Get(centro_file)[c])

\* C23: without centromere input, whatever the number k >= 1 of chromosomes,
\* get_chr_segment_length returns k lengths, each >= 1: the length of a
\* chromosome is the end position of its last fragment, and the last length is
\* the end position of the final fragment of the table.
C23_ChromosomeLengths ==
    (centro_file = Absent /\ chr_segment_bins # Absent /\ pc # "segment_length") =>
        LET starts == SortedSeqOf(FirstFragments(fragments))
            k == Len(starts)
        IN /\ chr_segment_length # Absent
           /\ Len(chr_segment_length) = k
           /\ \A c \in 1..k :
                 /\ chr_segment_length[c] >= 1
                 /\ chr_segment_length[c] = ChromLength(fragments, starts[c])
           /\ chr_segment_length[k] = fragments[Len(fragments)].end_pos

\* the steps of get_distance_law that create and normalise the accumulators
InitPsStep == pc = "init_ps" /\ pc' = "stream"
NormalizeStep == pc = "normalize" /\ pc' = "export"

\* the accumulators as created: one per segment, as long as the segment's
\* bin-starts, every counter zero
FreshAccumulators(acc) ==
    /\ Len(acc) = Len(xs)
    /\ \A i1 \in 1..Len(acc) : Len(acc[i1]) = Len(xs[i1])
    /\ AllZero(acc)

\* the value of a normalised counter is the raw count it was computed from:
\* count / area = count only for a count of 0 and an area that is not 0
\* (0 / 0 is nan), no area being 1: the areas are div / (2 * sqrt(2)) and div / 2
\* with div a square in the second case
SameValue(cell, count) == cell.count = count /\ count = 0 /\ cell.div # 0
\* a counter whose area is not 0
Divisible(cell) == cell.div # 0

SameFloats(after, before) ==
    /\ Len(after) = Len(before)
    /\ \A k1 \in 1..Len(before) : after[k1] = Float(before[k1])

\* C25: when normalize_distance_law, average_distance_law or slope_distance_law
\* returns, every array of bin-starts and every array of probabilities it was
\* given holds the values it held before the call, zeros included.
C25_CurvesNotModified ==
    /\ (Called("normalize_distance_law") \/ Called("average_distance_law")) =>
          /\ Get(call).xs_after = Get(call).xs
          /\ Get(call).ps_after = Get(call).ps
    /\ Called("slope_distance_law") =>
          /\ Get(call).xs_after = Get(call).xs
          /\ Len(Get(call).ps_after) = Len(Get(call).ps)
          /\ \A c \in 1..Len(Get(call).ps) :
                SameFloats(Get(call).ps_after[c], Get(call).ps[c])

\* C26: the area-normalisation pass never divides by zero: for every segment
\* and every bin the factor (2n - x[j+1] - x[j]) * (x[j+1] - x[j]) of a
\* non-final bin and the factor (n - x[last])^2 of the final bin are > 0,
\* whatever the segment length n >= 1 and the circular flag.  Stated for the
\* runs over whole chromosomes; the arms are the case of C22.
C26_DivisorsPositive ==
    (pc \in {"export", "done"} /\ centro_file = Absent) =>
        \A i1 \in 1..Len(ps) : \A j1 \in 1..Len(ps[i1]) :
            /\ ps[i1][j1].div
                  = IF j1 < Len(xs[i1])
                    THEN (2 * chr_segment_length[i1] - xs[i1][j1 + 1] - xs[i1][j1])
                         * (xs[i1][j1 + 1] - xs[i1][j1])
                    ELSE (chr_segment_length[i1] - xs[i1][j1])
                         * (chr_segment_length[i1] - xs[i1][j1])
            /\ ps[i1][j1].div > 0

\* C27: the label of segment i is the name of the chromosome that holds the
\* fragments of segment i, followed by the suffix of the arm when the segments
\* are arms, in whatever order the table names its chromosomes.
C27_LabelsFollowSegments ==
    (Called("get_names") /\ err = None) =>
        LET c == Get(call)
        IN /\ Len(c.result) = Len(c.chr_segment_bins)
           /\ \A i1 \in 1..Len(c.chr_segment_bins) :
                 (IF c.arms THEN c.result[i1][1] ELSE c.result[i1])
                    = c.fragments[c.chr_segment_bins[i1] + 1].chrom

\* accumulators of zeros, as get_distance_law creates them
ZeroAccumulators == [i1 \in 1..Len(xs) |-> [j1 \in 1..Len(xs[i1]) |-> 0]]

\* the accumulators acc after the record rec has gone through get_pairs_distance
Streamed(rec, acc) ==
    get_pairs_distance(rec, fragments, chr_segment_bins, chr_segment_length, xs,
                       acc, circular).ps

\* two lists of accumulators added cell by cell
CellSum(a, b) ==
    [i1 \in 1..Len(a) |-> [j1 \in 1..Len(a[i1]) |-> a[i1][j1] + b[i1][j1]]]

\* C28: the counters after the streaming pass depend only on the multiset of
\* the records.  Every record that is read adds to the accumulators what it
\* leaves in accumulators of zeros, whatever was read before it, so that two
\* parts of a file streamed apart and added cell by cell give the counters of
\* one pass; and the two records of a file read in the other order give the
\* same counters.
C28_OrderIndependent ==
    [][(StreamStep /\ err' = None) =>
          /\ ps' = CellSum(ps, Streamed(Get(line'), ZeroAccumulators))
          /\ (nread = 1) =>
                ps' = Streamed(Get(line), Streamed(Get(line'), ZeroAccumulators))]_vars

\* two different records counted in the same bin, one after the other
C28_Witness ==
    /\ pc = "stream"
    /\ nread = 2
    /\ Total(ps) = 2
    /\ \E i1 \in 1..Len(ps) : \E j1 \in 1..Len(ps[i1]) : ps[i1][j1] = 2
    /\ Streamed(Get(line), ZeroAccumulators) # ZeroAccumulators
    /\ \E rec \in Records(Len(fragments)) :
          /\ rec # Get(line)
          /\ Streamed(rec, ZeroAccumulators) = Streamed(Get(line), ZeroAccumulators)

\* two records counted in different bins
C28_WitnessOther ==
    /\ pc = "stream"
    /\ nread = 2
    /\ Total(ps) = 2
    /\ \A i1 \in 1..Len(ps) : \A j1 \in 1..Len(ps[i1]) : ps[i1][j1] <= 1

\* the reads the two files have still to give
ReadsLeft(st) == Len(st.forward) + Len(st.reverse)

\* a turn of the while loop of sam2pairs
WhileTurn == pc = "while" /\ pc' = "while"

\* C29: sam2pairs comes to an end on two finite name-sorted files whatever
\* reads are missing from either: every turn of the while loop takes a read
\* from one of the files, counts one unmatched read, and writes nothing; and
\* the two halves of every row written come from reads of the same name.
C29_Sam2pairsTerminates ==
    [][/\ WhileTurn =>
             /\ ReadsLeft(Get(call').st) < ReadsLeft(Get(call).st)
             /\ Get(call').st.unmatched = Get(call).st.unmatched + 1
             /\ Get(call').st.pairs = Get(call).st.pairs
       /\ (call' # Absent) =>
             \A r \in 1..Len(Get(call').st.pairs) :
                 Get(call').st.pairs[r].readID = Get(call').st.pairs[r].mate]_vars

\* C30: the number of nonzero entries in the header line of the matrix file is
\* the number of entry lines below it, for every sorted pairs file with at
\* least one record, whatever its first combination of fragments.
C30_HeaderCountsEntries ==
    Called("pairs2matrix") =>
        Get(call).result.header[3] = Len(Get(call).result.mat)

====
